---- MODULE Spec2Model ----
(***************************************************************************)
(* Model of latlon.py: the one-shot ingestion of MarineCadastre AIS CSV    *)
(* files into PostgreSQL/PostGIS.  The script creates the zones table,     *)
(* fills it with the UTM grid polygons, creates the vessels table, ingests *)
(* one CSV per (month, zone) archive and finally backfills the point       *)
(* geometry of every vessel row.  The database is modelled as the pair     *)
(* (committed, cur): the durable content and the content the one session   *)
(* of the script sees inside its open transaction.                         *)
(***************************************************************************)
EXTENDS Integers, Sequences, FiniteSets, TLC

VARIABLES
    pc,            \* position of the script
    committed,     \* durable database content
    cur,           \* content seen by the session (committed + open transaction)
    queryvar,      \* build_zone_polygons: the list of query parameters
    i,             \* build_zone_polygons: index of the execute loop
    month,         \* driver loop variable
    zone,          \* driver loop variable
    count,         \* driver loop: iteration counter
    disk,          \* extracted files: csv path -> file content (list of lines)
    rows_begin,    \* copy_csv_to_table: COUNT(*) before the copy
    csvlines,      \* copy_csv_to_table: data lines counted in the file
    rows_end,      \* copy_csv_to_table: COUNT(*) after the copy
    stdout,        \* last progress figures printed: [counter, report]
    error,         \* "none", or the exception that ended the run
    failedAt,      \* pc at which the exception was raised
    ingested,      \* history: csv paths whose copy was committed, in order
    rmtrees,       \* history: csv paths after whose ingest rmtree ran
    backfills      \* history: number of geometry UPDATEs executed

vars == <<pc, committed, cur, queryvar, i, month, zone, count, disk,
          rows_begin, csvlines, rows_end, stdout, error, failedAt,
          ingested, rmtrees, backfills>>

(***************************************************************************)
(* Bounds of the model (not program constants).                            *)
(***************************************************************************)
\* longest CSV (data lines) and longest prior table in the copy specification
MaxRows == 2
MaxPrior == 2
\* largest coordinate value used in the sample CSV lines
MaxCoord == 2

(***************************************************************************)
(* Python helpers: range, zip, str.                                        *)
(***************************************************************************)
Min(a, b) == IF a <= b THEN a ELSE b

\* list(range(a, b, step)) for step > 0
Range(a, b, step) ==
    [k \in 1..(IF b > a THEN (b - a + step - 1) \div step ELSE 0) |-> a + (k - 1) * step]

\* list(zip(s, t)): stops at the shorter list
Zip(s, t) == [k \in 1..Min(Len(s), Len(t)) |-> <<s[k], t[k]>>]

Digit(d) == <<"0", "1", "2", "3", "4", "5", "6", "7", "8", "9">>[d + 1]

\* str(n) for n >= 0, as the list of its characters
RECURSIVE Str(_)
Str(n) == IF n < 10 THEN <<Digit(n)>> ELSE Str(n \div 10) \o <<Digit(n % 10)>>

(***************************************************************************)
(* build_zone_polygons: the grid.                                          *)
(***************************************************************************)
\* (llatnameShort and llonnameShort are the lists one element short)
llatnameShort ==
    <<"C", "D", "E", "F", "G", "H", "J", "K", "L", "M", "N",
      "P", "Q", "R", "S", "T", "U", "V">>
llatname ==
    <<"C", "D", "E", "F", "G", "H", "J", "K", "L", "M", "N",
      "P", "Q", "R", "S", "T", "U", "V", "W">>
llonnameShort == Range(1, 60, 1)
llonname == Range(1, 61, 1)
LatStep == 8
LonStep == 6
XLatStep == 12
XLat == 72
llat == Range(-80, XLat, LatStep)
llon == Range(-180, 180, LonStep)
XLatName == "X"

\* str(lonname)+latname
ZoneName(lonname, latname) == Str(lonname) \o <<latname>>

\* one entry of queryvar: the name and the five (lat, lon) pairs, flattened
\* exactly as the list literal of the source
QueryEntry(lat, latname, lon, lonname, dlat) ==
    <<ZoneName(lonname, latname), lat, lon, lat, lon + LonStep,
      lat + dlat, lon + LonStep, lat + dlat, lon, lat, lon>>

\* the first loop nest: for (lat, latname): for (lon, lonname)
MainBands ==
    LET zlat == Zip(llat, llatname)
        zlon == Zip(llon, llonname)
        n    == Len(zlon)
    IN  [k \in 1..(Len(zlat) * n) |->
            LET a == zlat[((k - 1) \div n) + 1]
                o == zlon[((k - 1) % n) + 1]
            IN  QueryEntry(a[1], a[2], o[1], o[2], LatStep)]

\* the second loop: lat = 72, latname = 'X'
XBand ==
    LET zlon == Zip(llon, llonname)
    IN  [k \in 1..Len(zlon) |->
            QueryEntry(XLat, XLatName, zlon[k][1], zlon[k][2], XLatStep)]

BuildQueryvar == MainBands \o XBand

(***************************************************************************)
(* The INSERT INTO zones query: PostGIS functions on a WKT line string.    *)
(* A point is <<x, y>>: WKT gives the first number of a pair as x.         *)
(***************************************************************************)
\* ST_GeomFromText('LINESTRING(%s %s, %s %s, %s %s, %s %s, %s %s)') with the
\* parameters 2..11 of the entry substituted in order
LineString(q) ==
    <<<<q[2], q[3]>>, <<q[4], q[5]>>, <<q[6], q[7]>>, <<q[8], q[9]>>, <<q[10], q[11]>>>>
ST_StartPoint(line) == line[1]
ST_AddPoint(line, p) == Append(line, p)
ST_MakePolygon(line) == [type |-> "POLYGON", ring |-> line]

\* the row one execution of the query inserts
ZoneRow(q) ==
    [name    |-> q[1],
     polygon |-> ST_MakePolygon(ST_AddPoint(LineString(q), ST_StartPoint(LineString(q))))]

(***************************************************************************)
(* SQL values.  Every value carries its type tag first, so that values of  *)
(* different types can be compared.                                        *)
(***************************************************************************)
SqlNull == <<"null">>
Num(k) == <<"num", k>>
Text(s) == <<"text", s>>
IsNull(v) == v[1] = "null"

\* text of a number, as PostgreSQL prints it, and the number a text denotes
FormatNum(k) == IF k < 0 THEN <<"-">> \o Str(-k) ELSE Str(k)

Digits == {"0", "1", "2", "3", "4", "5", "6", "7", "8", "9"}
DigitVal(c) == CHOOSE d \in 0..9 : Digit(d) = c

RECURSIVE ParseNat(_)
ParseNat(s) ==
    IF Len(s) = 1 THEN DigitVal(s[1])
    ELSE 10 * ParseNat(SubSeq(s, 1, Len(s) - 1)) + DigitVal(s[Len(s)])

IsNatText(s) == Len(s) > 0 /\ \A k \in 1..Len(s) : s[k] \in Digits
IsNumText(s) ==
    IF Len(s) > 0 /\ s[1] = "-" THEN IsNatText(Tail(s)) ELSE IsNatText(s)
ParseNum(s) == IF s[1] = "-" THEN 0 - ParseNat(Tail(s)) ELSE ParseNat(s)

(***************************************************************************)
(* create_vessel_table: the columns of public.vessels and their types.     *)
(***************************************************************************)
colslist ==
    <<"mmsi", "basedatetime", "lat", "lon", "sog", "cog", "heading",
      "vesselname", "imo", "callsign", "vesseltype", "status", "length",
      "width", "draft", "cargo">>

NumericCols ==
    {"lat", "lon", "sog", "cog", "heading", "vesseltype", "length", "width", "draft"}

VesselCols == {colslist[k] : k \in 1..Len(colslist)} \cup {"the_geom"}

SRID == 4326

\* the three CHECK constraints on the_geom; a comparison with NULL is not
\* false, so a NULL geometry passes each of them
enforce_dims_the_geom(g) == IsNull(g) \/ g[2].ndims = 2
enforce_geotype_geom(g) == IsNull(g) \/ g[2].type = "POINT"
enforce_srid_the_geom(g) == IsNull(g) \/ g[2].srid = SRID
VesselChecks(row) ==
    /\ enforce_dims_the_geom(row["the_geom"])
    /\ enforce_geotype_geom(row["the_geom"])
    /\ enforce_srid_the_geom(row["the_geom"])

(***************************************************************************)
(* copy_csv_to_table: the file and cursor.copy_from.                       *)
(* A file is a list of lines, a line a list of fields, a field a list of   *)
(* characters.                                                             *)
(***************************************************************************)
\* the end-of-data marker of COPY's text format: a line holding only \.
EndOfData == <<<<"\\", ".">>>>

\* the lines left in f after next(f)
SkipHeader(file) == Tail(file)

\* sum(1 for line in f) after next(f)
CountLines(file) == Len(SkipHeader(file))

\* the lines COPY reads: all of them up to an end-of-data marker
CopyInput(lines) ==
    IF \E k \in 1..Len(lines) : lines[k] = EndOfData
    THEN SubSeq(lines, 1, (CHOOSE k \in 1..Len(lines) :
                              /\ lines[k] = EndOfData
                              /\ \A j \in 1..(k - 1) : lines[j] # EndOfData) - 1)
    ELSE lines

\* input conversion of one field for column col; null="" makes the empty
\* string NULL
FieldOk(col, f) == f = <<>> \/ col \notin NumericCols \/ IsNumText(f)
CopyField(col, f) ==
    IF f = <<>> THEN SqlNull
    ELSE IF col \in NumericCols THEN Num(ParseNum(f)) ELSE Text(f)

LineOk(line) ==
    /\ Len(line) = Len(colslist)
    /\ \A k \in 1..Len(colslist) : FieldOk(colslist[k], line[k])

\* the row COPY builds from a line: the columns of colslist positionally,
\* the_geom at its default
CopyRow(line) ==
    [c \in VesselCols |->
        IF c = "the_geom" THEN SqlNull
        ELSE LET k == CHOOSE j \in 1..Len(colslist) : colslist[j] = c
             IN  CopyField(c, line[k])]

\* cur.copy_from(f, 'vessels', sep=',', columns=colslist, null="") after
\* next(f): TRUE when the statement succeeds, and the rows it appends
CopyAccepts(file) == \A k \in 1..Len(CopyInput(SkipHeader(file))) :
                        LineOk(CopyInput(SkipHeader(file))[k])
\* (the first variant loses the last line of the file)
CopyRowsDropLast(file) ==
    LET data == CopyInput(SkipHeader(file))
    IN  [k \in 1..(IF Len(data) > 0 THEN Len(data) - 1 ELSE 0) |-> CopyRow(data[k])]
CopyRows(file) ==
    LET data == CopyInput(SkipHeader(file))
    IN  [k \in 1..Len(data) |-> CopyRow(data[k])]

(***************************************************************************)
(* The geometry backfill:                                                  *)
(*   UPDATE vessels SET the_geom =                                         *)
(*     ST_GeomFromText('POINT(' || LON || ' ' || LAT || ')', 4326)         *)
(***************************************************************************)
\* a || b || ... on text: NULL when any operand is NULL
ConcatText(parts) ==
    IF \E k \in 1..Len(parts) : IsNull(parts[k]) THEN SqlNull
    ELSE LET RECURSIVE Cat(_)
             Cat(k) == IF k = 0 THEN <<>> ELSE Cat(k - 1) \o parts[k][2]
         IN  Text(Cat(Len(parts)))

\* a number used as a || operand is cast to text
NumToText(v) == IF IsNull(v) THEN SqlNull ELSE Text(FormatNum(v[2]))

\* (the first variant writes the operands in the order lat, lon)
PointWktLatLon(row) ==
    ConcatText(<<Text(<<"POINT(">>), NumToText(row["lat"]), Text(<<" ">>),
                 NumToText(row["lon"]), Text(<<")">>)>>)
PointWkt(row) ==
    ConcatText(<<Text(<<"POINT(">>), NumToText(row["lon"]), Text(<<" ">>),
                 NumToText(row["lat"]), Text(<<")">>)>>)

\* ST_GeomFromText on the WKT of a point: x is the first number, y the second
ST_GeomFromText(wkt, srid) ==
    IF IsNull(wkt) THEN SqlNull
    ELSE LET body == SubSeq(wkt[2], 2, Len(wkt[2]) - 1)
             sp   == CHOOSE k \in 1..Len(body) : body[k] = " "
         IN  <<"geom", [type  |-> "POINT",
                        x     |-> ParseNum(SubSeq(body, 1, sp - 1)),
                        y     |-> ParseNum(SubSeq(body, sp + 1, Len(body))),
                        ndims |-> 2,
                        srid  |-> srid]>>

BackfillRow(row) == [row EXCEPT !["the_geom"] = ST_GeomFromText(PointWkt(row), SRID)]

(***************************************************************************)
(* The input archives and the extracted files.                             *)
(***************************************************************************)
\* "{:02d}".format(n)
Fmt2(n) == IF n < 10 THEN <<"0">> \o Str(n) ELSE Str(n)

\* csvpath.format(month, zone): the two formatted fields identify the file
CsvPath(m, z) == <<Fmt2(m), Fmt2(z)>>

\* the header line of a MarineCadastre CSV
HeaderLine == [k \in 1..Len(colslist) |-> <<colslist[k]>>]

\* a data line with the given lat and lon fields; mmsi and basedatetime are
\* set and the other columns are empty
SampleLine(lat, lon) ==
    [k \in 1..Len(colslist) |->
        IF colslist[k] = "mmsi" THEN <<"3">>
        ELSE IF colslist[k] = "basedatetime" THEN <<"t">>
        ELSE IF colslist[k] = "lat" THEN lat
        ELSE IF colslist[k] = "lon" THEN lon
        ELSE <<>>]

\* the CSV inside the archive of (month, zone): a header and zero to two
\* well-formed data lines, some of them with an empty lat or lon
ArchiveLines(m, z) == (m + z) % 3

ArchiveCsv(m, z) ==
    LET n == ArchiveLines(m, z)
        lat(k) == IF (m + k) % 3 = 0 THEN <<>> ELSE FormatNum((z % (MaxCoord + 1)) - 1)
        lon(k) == IF (z + k) % 4 = 0 THEN <<>> ELSE FormatNum(0 - ((m + k) % (MaxCoord + 1)))
    IN  <<HeaderLine>> \o [k \in 1..n |-> SampleLine(lat(k), lon(k))]

FileAt(path) == (CHOOSE e \in disk : e.path = path).content

(***************************************************************************)
(* The database.                                                           *)
(***************************************************************************)
EmptyDb == [tables |-> {}, indexes |-> {}, zones |-> <<>>, vessels |-> <<>>]

\* what an earlier run that failed while building the zones left behind
ZonesOnlyDb == [EmptyDb EXCEPT !.tables = {"zones"}]

\* what an earlier complete run left behind
FullDb ==
    [tables  |-> {"zones", "vessels"},
     indexes |-> {"vessels_the_geom_gist"},
     zones   |-> [k \in 1..Len(BuildQueryvar) |-> ZoneRow(BuildQueryvar[k])],
     vessels |-> <<BackfillRow(CopyRow(SampleLine(<<"1">>, <<"2">>))),
                   BackfillRow(CopyRow(SampleLine(<<>>, <<"2">>)))>>]

(***************************************************************************)
(* The driver loop ranges.                                                 *)
(***************************************************************************)
FirstMonth == 1
EndMonth == 13
FirstZone == 1
EndZone == 21
SkipZones == {12, 13}
\* the total the progress line prints: 12*20
PrintedTotal == 12 * 20

(***************************************************************************)
(* Exceptions: the with-block rolls the open transaction back and the      *)
(* exception ends the script.                                              *)
(***************************************************************************)
Raise(err) ==
    /\ error' = err
    /\ failedAt' = pc
    /\ pc' = "failed"
    /\ cur' = committed
    /\ UNCHANGED committed

Init ==
    /\ pc = "create_zones_table"
    /\ committed \in {EmptyDb, ZonesOnlyDb, FullDb}
    /\ cur = committed
    /\ queryvar = <<>>
    /\ i = 0
    /\ month = 0
    /\ zone = 0
    /\ count = 0
    /\ disk = {}
    /\ rows_begin = 0
    /\ csvlines = 0
    /\ rows_end = 0
    /\ stdout = [counter |-> <<>>, report |-> <<>>]
    /\ error = "none"
    /\ failedAt = "none"
    /\ ingested = <<>>
    /\ rmtrees = <<>>
    /\ backfills = 0

(***************************************************************************)
(* create_zones_table                                                      *)
(***************************************************************************)
\* (the first variant is CREATE TABLE IF NOT EXISTS: it accepts a table that
\* is already there)
CreateZonesTableIfNotExists ==
    /\ pc = "create_zones_table"
    /\ cur' = [cur EXCEPT !.tables = @ \cup {"zones"}]
    /\ pc' = "create_zones_commit"
    /\ UNCHANGED <<committed, error, failedAt>>
    /\ UNCHANGED <<queryvar, i, month, zone, count, disk, rows_begin, csvlines,
                   rows_end, stdout, ingested, rmtrees, backfills>>

CreateZonesTable ==
    /\ pc = "create_zones_table"
    /\ IF "zones" \in cur.tables
       THEN Raise("DuplicateTable")
       ELSE /\ cur' = [cur EXCEPT !.tables = @ \cup {"zones"}]
            /\ pc' = "create_zones_commit"
            /\ UNCHANGED <<committed, error, failedAt>>
    /\ UNCHANGED <<queryvar, i, month, zone, count, disk, rows_begin, csvlines,
                   rows_end, stdout, ingested, rmtrees, backfills>>

CommitZonesTable ==
    /\ pc = "create_zones_commit"
    /\ committed' = cur
    /\ pc' = "prepare_queries"
    /\ UNCHANGED <<cur, queryvar, i, month, zone, count, disk, rows_begin, csvlines,
                   rows_end, stdout, error, failedAt, ingested, rmtrees, backfills>>

(***************************************************************************)
(* build_zone_polygons                                                     *)
(***************************************************************************)
PrepareQueries ==
    /\ pc = "prepare_queries"
    /\ queryvar' = BuildQueryvar
    /\ i' = 1
    /\ pc' = "execute_queries"
    /\ UNCHANGED <<committed, cur, month, zone, count, disk, rows_begin, csvlines,
                   rows_end, stdout, error, failedAt, ingested, rmtrees, backfills>>

\* the rows the first n executions of the query insert
ExecutedRows(n) == [k \in 1..n |-> ZoneRow(queryvar[k])]

\* for i in range(len(queryvar)): cur.execute(query, queryvar[i])
\* The whole loop: either every execution succeeds, or the k-th one raises
\* with the k-1 earlier inserts pending in the open transaction, which the
\* with-block rolls back.
\* (the first variant commits each insert on its own, as an autocommit
\* connection would; the commit variant below forgets the commit)
ExecuteQueriesAutocommit ==
    /\ pc = "execute_queries"
    /\ \/ /\ cur' = [cur EXCEPT !.zones = @ \o ExecutedRows(Len(queryvar))]
          /\ committed' = cur'
          /\ i' = Len(queryvar) + 1
          /\ pc' = "zones_commit"
          /\ UNCHANGED <<error, failedAt>>
       \/ \E k \in 1..Len(queryvar) :
             /\ i' = k
             /\ cur' = [cur EXCEPT !.zones = @ \o ExecutedRows(k - 1)]
             /\ committed' = cur'
             /\ error' = "EnvironmentError"
             /\ failedAt' = pc
             /\ pc' = "failed"
    /\ UNCHANGED <<queryvar, month, zone, count, disk, rows_begin, csvlines,
                   rows_end, stdout, ingested, rmtrees, backfills>>

ExecuteQueries ==
    /\ pc = "execute_queries"
    /\ \/ /\ cur' = [cur EXCEPT !.zones = @ \o ExecutedRows(Len(queryvar))]
          /\ i' = Len(queryvar) + 1
          /\ pc' = "zones_commit"
          /\ UNCHANGED <<committed, error, failedAt>>
       \/ \E k \in 1..Len(queryvar) :
             /\ i' = k
             /\ Raise("EnvironmentError")
    /\ UNCHANGED <<queryvar, month, zone, count, disk, rows_begin, csvlines,
                   rows_end, stdout, ingested, rmtrees, backfills>>

CommitZonesSkipped ==
    /\ pc = "zones_commit"
    /\ queryvar' = <<>>
    /\ pc' = "create_vessel_table"
    /\ UNCHANGED <<committed, cur, i, month, zone, count, disk, rows_begin, csvlines,
                   rows_end, stdout, error, failedAt, ingested, rmtrees, backfills>>

CommitZones ==
    /\ pc = "zones_commit"
    /\ committed' = cur
    /\ queryvar' = <<>>
    /\ pc' = "create_vessel_table"
    /\ UNCHANGED <<cur, i, month, zone, count, disk, rows_begin, csvlines,
                   rows_end, stdout, error, failedAt, ingested, rmtrees, backfills>>

(***************************************************************************)
(* create_vessel_table                                                     *)
(***************************************************************************)
CreateVesselTable ==
    /\ pc = "create_vessel_table"
    /\ IF "vessels" \in cur.tables
       THEN Raise("DuplicateTable")
       ELSE /\ cur' = [cur EXCEPT !.tables = @ \cup {"vessels"}]
            /\ pc' = "create_index"
            /\ UNCHANGED <<committed, error, failedAt>>
    /\ UNCHANGED <<queryvar, i, month, zone, count, disk, rows_begin, csvlines,
                   rows_end, stdout, ingested, rmtrees, backfills>>

CreateIndex ==
    /\ pc = "create_index"
    /\ IF "vessels_the_geom_gist" \in cur.indexes
       THEN Raise("DuplicateTable")
       ELSE /\ cur' = [cur EXCEPT !.indexes = @ \cup {"vessels_the_geom_gist"}]
            /\ pc' = "vessel_commit"
            /\ UNCHANGED <<committed, error, failedAt>>
    /\ UNCHANGED <<queryvar, i, month, zone, count, disk, rows_begin, csvlines,
                   rows_end, stdout, ingested, rmtrees, backfills>>

\* con.commit() of create_vessel_table, then the assignments before the loop
CommitVesselTable ==
    /\ pc = "vessel_commit"
    /\ committed' = cur
    /\ count' = 1
    /\ month' = FirstMonth
    /\ zone' = FirstZone
    /\ pc' = "for"
    /\ UNCHANGED <<cur, queryvar, i, disk, rows_begin, csvlines, rows_end, stdout,
                   error, failedAt, ingested, rmtrees, backfills>>

(***************************************************************************)
(* The driver loop.                                                        *)
(***************************************************************************)
\* for month in range(1,13) is exhausted (the first variant is range(1,12))
MonthsDoneShort(m) == m >= EndMonth - 1
MonthsDone(m) == m >= EndMonth

\* if zone == 12 or zone == 13: continue (the first variant skips no zone)
SkippedNone(z) == FALSE
Skipped(z) == z \in SkipZones

\* the two for statements and the skip: take the next (month, zone), or leave
\* the loops; on entering the body the progress line is printed
For ==
    /\ pc = "for"
    /\ IF MonthsDone(month)
       THEN /\ pc' = "backfill_update"
            /\ UNCHANGED <<month, zone, stdout>>
       ELSE IF zone >= EndZone
       THEN /\ month' = month + 1
            /\ zone' = FirstZone
            /\ UNCHANGED <<pc, stdout>>
       ELSE IF Skipped(zone)
       THEN /\ zone' = zone + 1
            /\ UNCHANGED <<pc, month, stdout>>
       ELSE /\ stdout' = [stdout EXCEPT !.counter = <<count, PrintedTotal>>]
            /\ pc' = "extract"
            /\ UNCHANGED <<month, zone>>
    /\ UNCHANGED <<committed, cur, queryvar, i, count, disk, rows_begin, csvlines,
                   rows_end, error, failedAt, ingested, rmtrees, backfills>>

\* zipfile.ZipFile(filename.format(month, zone)).extractall()
Extract ==
    /\ pc = "extract"
    /\ disk' = disk \cup {[path |-> CsvPath(month, zone), content |-> ArchiveCsv(month, zone)]}
    /\ pc' = "copy_begin"
    /\ UNCHANGED <<committed, cur, queryvar, i, month, zone, count, rows_begin,
                   csvlines, rows_end, stdout, error, failedAt, ingested, rmtrees,
                   backfills>>

(***************************************************************************)
(* copy_csv_to_table(con, csvpath.format(month, zone))                     *)
(***************************************************************************)
\* SELECT COUNT(*) FROM vessels; con.commit(); rows_begin = cur.fetchone()
CopyBegin ==
    /\ pc = "copy_begin"
    /\ rows_begin' = Len(cur.vessels)
    /\ committed' = cur
    /\ pc' = "copy_lines"
    /\ UNCHANGED <<cur, queryvar, i, month, zone, count, disk, csvlines, rows_end,
                   stdout, error, failedAt, ingested, rmtrees, backfills>>

\* the first with-block: next(f), then count the remaining lines
CopyLines ==
    /\ pc = "copy_lines"
    /\ IF Len(FileAt(CsvPath(month, zone))) = 0
       THEN /\ Raise("StopIteration")
            /\ UNCHANGED csvlines
       ELSE /\ csvlines' = CountLines(FileAt(CsvPath(month, zone)))
            /\ pc' = "copy_from"
            /\ UNCHANGED <<committed, cur, error, failedAt>>
    /\ UNCHANGED <<queryvar, i, month, zone, count, disk, rows_begin, rows_end,
                   stdout, ingested, rmtrees, backfills>>

\* the second with-block: next(f), then cur.copy_from(...)
CopyFrom ==
    /\ pc = "copy_from"
    /\ IF ~CopyAccepts(FileAt(CsvPath(month, zone)))
       THEN Raise("DataError")
       ELSE /\ cur' = [cur EXCEPT !.vessels = @ \o CopyRows(FileAt(CsvPath(month, zone)))]
            /\ pc' = "copy_commit"
            /\ UNCHANGED <<committed, error, failedAt>>
    /\ UNCHANGED <<queryvar, i, month, zone, count, disk, rows_begin, csvlines,
                   rows_end, stdout, ingested, rmtrees, backfills>>

\* con.commit() after the copy
CopyCommit ==
    /\ pc = "copy_commit"
    /\ committed' = cur
    /\ ingested' = Append(ingested, CsvPath(month, zone))
    /\ pc' = "copy_end"
    /\ UNCHANGED <<cur, queryvar, i, month, zone, count, disk, rows_begin, csvlines,
                   rows_end, stdout, error, failedAt, rmtrees, backfills>>

\* SELECT COUNT(*); rows_end; rows_ingested; the statistics line.  The
\* function returns whatever the two figures are.
CopyEnd ==
    /\ pc = "copy_end"
    /\ rows_end' = Len(cur.vessels)
    /\ stdout' = [stdout EXCEPT !.report =
                     <<Len(cur.vessels) - rows_begin, csvlines, Len(cur.vessels)>>]
    /\ committed' = cur
    /\ pc' = "rmtree"
    /\ UNCHANGED <<cur, queryvar, i, month, zone, count, disk, rows_begin, csvlines,
                   error, failedAt, ingested, rmtrees, backfills>>

\* shutil.rmtree(rmpath); count = count+1; the zone loop advances
\* (the first variant leaves the extracted tree in place)
RmtreeSkipped ==
    /\ pc = "rmtree"
    /\ count' = count + 1
    /\ zone' = zone + 1
    /\ pc' = "for"
    /\ UNCHANGED <<committed, cur, queryvar, i, month, disk, rows_begin, csvlines,
                   rows_end, stdout, error, failedAt, ingested, rmtrees, backfills>>

Rmtree ==
    /\ pc = "rmtree"
    /\ disk' = {}
    /\ rmtrees' = Append(rmtrees, CsvPath(month, zone))
    /\ count' = count + 1
    /\ zone' = zone + 1
    /\ pc' = "for"
    /\ UNCHANGED <<committed, cur, queryvar, i, month, rows_begin, csvlines,
                   rows_end, stdout, error, failedAt, ingested, backfills>>

(***************************************************************************)
(* The geometry backfill.                                                  *)
(***************************************************************************)
UpdatedVessels == [k \in 1..Len(cur.vessels) |-> BackfillRow(cur.vessels[k])]

BackfillUpdate ==
    /\ pc = "backfill_update"
    /\ IF \E k \in 1..Len(UpdatedVessels) : ~VesselChecks(UpdatedVessels[k])
       THEN /\ Raise("CheckViolation")
            /\ UNCHANGED backfills
       ELSE /\ cur' = [cur EXCEPT !.vessels = UpdatedVessels]
            /\ backfills' = backfills + 1
            /\ pc' = "backfill_commit"
            /\ UNCHANGED <<committed, error, failedAt>>
    /\ UNCHANGED <<queryvar, i, month, zone, count, disk, rows_begin, csvlines,
                   rows_end, stdout, ingested, rmtrees>>

BackfillCommit ==
    /\ pc = "backfill_commit"
    /\ committed' = cur
    /\ pc' = "done"
    /\ UNCHANGED <<cur, queryvar, i, month, zone, count, disk, rows_begin, csvlines,
                   rows_end, stdout, error, failedAt, ingested, rmtrees, backfills>>

(***************************************************************************)
(* A failure of the environment (database, file system, standard output)   *)
(* in the statement at pc: the exception is not caught anywhere.  An        *)
(* extraction that fails may have written the file already.  (A failure    *)
(* inside the execute loop is part of ExecuteQueries.)                     *)
(***************************************************************************)
Fail ==
    /\ pc \notin {"done", "failed", "execute_queries"}
    /\ Raise("EnvironmentError")
    /\ IF pc = "extract"
       THEN disk' \in {disk, disk \cup {[path |-> CsvPath(month, zone),
                                        content |-> ArchiveCsv(month, zone)]}}
       ELSE UNCHANGED disk
    /\ UNCHANGED <<queryvar, i, month, zone, count, rows_begin, csvlines, rows_end,
                   stdout, ingested, rmtrees, backfills>>

Next ==
    \/ CreateZonesTable
    \/ CommitZonesTable
    \/ PrepareQueries
    \/ ExecuteQueries
    \/ CommitZones
    \/ CreateVesselTable
    \/ CreateIndex
    \/ CommitVesselTable
    \/ For
    \/ Extract
    \/ CopyBegin
    \/ CopyLines
    \/ CopyFrom
    \/ CopyCommit
    \/ CopyEnd
    \/ Rmtree
    \/ BackfillUpdate
    \/ BackfillCommit
    \/ Fail

Spec == Init /\ [][Next]_vars

(***************************************************************************)
(* The driver loop from any of its iterations.  LoopHead(k) is the state   *)
(* of the run at the head of the loop when k iterations are complete:      *)
(* LoopHead(0) is the state CommitVesselTable leaves, and LoopHead(k) the  *)
(* state the k-th Rmtree leaves.  All of them are states of Spec.          *)
(***************************************************************************)
\* the elements of a set of numbers in increasing order
SortedSeq(S) ==
    [n \in 1..Cardinality(S) |-> CHOOSE x \in S : Cardinality({y \in S : y < x}) = n - 1]

\* the (month, zone) pairs in the order the loops take them
LoopPairs ==
    LET months == SortedSeq({m \in FirstMonth..EndMonth : ~MonthsDone(m)})
        zones  == SortedSeq({z \in FirstZone..(EndZone - 1) : ~Skipped(z)})
    IN  [n \in 1..(Len(months) * Len(zones)) |->
            <<months[((n - 1) \div Len(zones)) + 1], zones[((n - 1) % Len(zones)) + 1]>>]

\* the rows of each archive, in loop order
LoopRows ==
    [j \in 1..Len(LoopPairs) |-> CopyRows(ArchiveCsv(LoopPairs[j][1], LoopPairs[j][2]))]

\* <<j, r>>: row r of the j-th archive, and its position among all the rows
LoopCells ==
    UNION {{<<j, r>> : r \in 1..Len(LoopRows[j])} : j \in 1..Len(LoopPairs)}
CellIndex ==
    [c \in LoopCells |->
        Cardinality({d \in LoopCells : d[1] < c[1] \/ (d[1] = c[1] /\ d[2] < c[2])})]
AllLoopRows ==
    [n \in 1..Cardinality(LoopCells) |->
        LET c == CHOOSE d \in LoopCells : CellIndex[d] = n - 1
        IN  LoopRows[c[1]][c[2]]]

\* the number of rows the first k archives hold, and those rows in order
RowsBefore(k) == Cardinality({c \in LoopCells : c[1] <= k})
RowsOfFirst(k) == SubSeq(AllLoopRows, 1, RowsBefore(k))

LoopHead(k) ==
    LET db == [FullDb EXCEPT !.vessels = RowsOfFirst(k)]
        last == LoopPairs[k]
    IN  /\ pc = "for"
        /\ committed = db
        /\ cur = db
        /\ queryvar = <<>>
        /\ i = Len(BuildQueryvar) + 1
        /\ month = (IF k = 0 THEN FirstMonth ELSE last[1])
        /\ zone = (IF k = 0 THEN FirstZone ELSE last[2] + 1)
        /\ count = k + 1
        /\ disk = {}
        /\ rows_begin = (IF k = 0 THEN 0 ELSE RowsBefore(k - 1))
        /\ csvlines = (IF k = 0 THEN 0 ELSE CountLines(ArchiveCsv(last[1], last[2])))
        /\ rows_end = (IF k = 0 THEN 0 ELSE RowsBefore(k))
        /\ stdout = (IF k = 0 THEN [counter |-> <<>>, report |-> <<>>]
                     ELSE [counter |-> <<k, PrintedTotal>>,
                           report  |-> <<RowsBefore(k) - RowsBefore(k - 1),
                                         CountLines(ArchiveCsv(last[1], last[2])),
                                         RowsBefore(k)>>])
        /\ error = "none"
        /\ failedAt = "none"
        /\ ingested = [j \in 1..k |-> CsvPath(LoopPairs[j][1], LoopPairs[j][2])]
        /\ rmtrees = [j \in 1..k |-> CsvPath(LoopPairs[j][1], LoopPairs[j][2])]
        /\ backfills = 0

InitLoop == \E k \in 0..(Len(LoopPairs) - 1) : LoopHead(k)

NextLoop ==
    \/ For
    \/ Extract
    \/ CopyBegin
    \/ CopyLines
    \/ CopyFrom
    \/ CopyCommit
    \/ CopyEnd
    \/ Rmtree
    \/ BackfillUpdate
    \/ BackfillCommit
    \/ Fail

SpecLoop == InitLoop /\ [][NextLoop]_vars

\* the whole run and the loop heads together: reaches no state Spec does not
SpecBoth == (Init \/ InitLoop) /\ [][Next]_vars

(***************************************************************************)
(* copy_csv_to_table on its own: one call, on a table that already holds   *)
(* any bounded number of rows, with any bounded file at the csv path.      *)
(***************************************************************************)
SeqsUpTo(S, n) == UNION {[1..k -> S] : k \in 0..n}

\* a line with a column missing, and a line with text in a numeric column
BadColumnsLine == SubSeq(SampleLine(<<"1">>, <<"2">>), 1, Len(colslist) - 1)
BadTypeLine == SampleLine(<<"x">>, <<"2">>)

LineAlphabet ==
    {SampleLine(<<"1">>, FormatNum(0 - MaxCoord)),
     SampleLine(<<>>, FormatNum(MaxCoord)),
     BadColumnsLine, BadTypeLine, EndOfData}

\* the empty file, and every file with a header and up to MaxRows lines
Files == {<<>>} \cup {<<HeaderLine>> \o lines : lines \in SeqsUpTo(LineAlphabet, MaxRows)}

PriorRows ==
    {CopyRow(SampleLine(<<"1">>, <<"2">>)), CopyRow(SampleLine(<<>>, <<"2">>))}

InitCopy ==
    /\ pc = "copy_begin"
    /\ \E prior \in SeqsUpTo(PriorRows, MaxPrior) :
          committed = [FullDb EXCEPT !.vessels = prior]
    /\ cur = committed
    /\ queryvar = <<>>
    /\ i = Len(BuildQueryvar) + 1
    /\ month = FirstMonth
    /\ zone = FirstZone
    /\ count = 1
    /\ \E f \in Files : disk = {[path |-> CsvPath(FirstMonth, FirstZone), content |-> f]}
    /\ rows_begin = 0
    /\ csvlines = 0
    /\ rows_end = 0
    /\ stdout = [counter |-> <<1, PrintedTotal>>, report |-> <<>>]
    /\ error = "none"
    /\ failedAt = "none"
    /\ ingested = <<>>
    /\ rmtrees = <<>>
    /\ backfills = 0

NextCopy ==
    \/ CopyBegin
    \/ CopyLines
    \/ CopyFrom
    \/ CopyCommit
    \/ CopyEnd
    \/ Fail

SpecCopy == InitCopy /\ [][NextCopy]_vars

(***************************************************************************)
(* Properties.                                                             *)
(***************************************************************************)
\* the file handed to the current call of copy_csv_to_table
CurrentFile == FileAt(CsvPath(month, zone))

\* a header line followed by data lines that all have the 16 columns with
\* values of the column types (and so no end-of-data marker)
WellFormed(file) ==
    /\ Len(file) >= 1
    /\ file[1] = HeaderLine
    /\ \A k \in 2..Len(file) : LineOk(file[k])

\* C1: copy_csv_to_table on a well-formed CSV with a header and N data lines
\* returns with the vessels row count increased by exactly N, committed, the
\* N new rows being the N lines in order, and reports N ingested out of N;
\* a well-formed file is never refused; and the statistics step ends the run
\* only when the environment fails, whatever the two figures are.
C1_CopyCount ==
    /\ (pc = "rmtree" /\ WellFormed(CurrentFile)) =>
          LET N == Len(CurrentFile) - 1
          IN  /\ rows_end - rows_begin = N
              /\ Len(committed.vessels) = rows_begin + N
              /\ \A k \in 1..N :
                    committed.vessels[rows_begin + k] = CopyRow(CurrentFile[k + 1])
              /\ stdout.report = <<N, N, rows_begin + N>>
    /\ (pc = "failed" /\ WellFormed(CurrentFile)) => error = "EnvironmentError"
    /\ (pc = "failed" /\ failedAt = "copy_end") => error = "EnvironmentError"

\* a call that returned after loading two or more lines into a non-empty table
C1_Witness ==
    /\ pc = "rmtree"
    /\ WellFormed(CurrentFile)
    /\ Len(CurrentFile) - 1 >= 2
    /\ rows_begin >= 1
    /\ rows_end = rows_begin + Len(CurrentFile) - 1

\* a call that returned although it reported fewer rows ingested than lines
\* counted (an end-of-data marker inside the file)
MismatchReported ==
    /\ pc = "rmtree"
    /\ stdout.report # <<>>
    /\ stdout.report[1] # stdout.report[2]

(***************************************************************************)
(* Properties of the whole run.                                            *)
(***************************************************************************)
\* the positions between the creation of the vessels table by this run and
\* its geometry UPDATE
BeforeBackfill ==
    {"create_index", "vessel_commit", "for", "extract", "copy_begin", "copy_lines",
     "copy_from", "copy_commit", "copy_end", "rmtree", "backfill_update"}

NoGeometry(rows) == \A k \in 1..Len(rows) : IsNull(rows[k]["the_geom"])

Elems(seq) == {seq[k] : k \in 1..Len(seq)}

\* the (month, zone) pairs the driver is to ingest, as csv paths
ExpectedPaths == {CsvPath(m, z) : m \in 1..12, z \in (1..20) \ {12, 13}}

\* C3 as stated: a run that is done has ingested exactly 236 archives, one
\* for each pair (month in 1..12, zone in 1..20 without 12 and 13), each once,
\* and the last counter printed is the number of archives ingested.
C3_Original ==
    pc = "done" =>
       /\ Len(ingested) = 236
       /\ Elems(ingested) = ExpectedPaths
       /\ Cardinality(Elems(ingested)) = Len(ingested)
       /\ stdout.counter[1] = Len(ingested)

\* C3 amended: the number of iterations is 12 * 18 = 216.
C3_Iterations ==
    pc = "done" =>
       /\ Len(ingested) = 216
       /\ Elems(ingested) = ExpectedPaths
       /\ Cardinality(Elems(ingested)) = Len(ingested)
       /\ rmtrees = ingested
       /\ stdout.counter[1] = Len(ingested)

C3_Witness == pc = "done" /\ Len(ingested) > 0 /\ stdout.counter[1] = Len(ingested)

(***************************************************************************)
(* Properties of the zone grid.                                            *)
(***************************************************************************)
BandLetters ==
    <<"C", "D", "E", "F", "G", "H", "J", "K", "L", "M", "N",
      "P", "Q", "R", "S", "T", "U", "V", "W", "X">>

ExpectedNames == {Str(n) \o <<BandLetters[b]>> : n \in 1..60, b \in 1..Len(BandLetters)}

\* C4: when the execute loop has ended, exactly 1200 inserts have been issued,
\* their names are exactly the 1200 names "index letter" for index in 1..60
\* and letter in C..X without I and O, no two rows share a name, and the name
\* of the row is the pair of its cell: the index is the position of the cell's
\* lon in the 6-degree grid and the letter that of its lat in the 8-degree grid.
C4_ZoneNames ==
    pc = "zones_commit" =>
       /\ i - 1 = 1200
       /\ Len(cur.zones) = 1200
       /\ {cur.zones[k].name : k \in 1..Len(cur.zones)} = ExpectedNames
       /\ Cardinality({cur.zones[k].name : k \in 1..Len(cur.zones)}) = Len(cur.zones)
       /\ Cardinality(ExpectedNames) = 60 * 20
       /\ \A k \in 1..Len(cur.zones) :
             LET name == cur.zones[k].name
                 lat  == queryvar[k][2]
                 lon  == queryvar[k][3]
             IN  /\ ParseNat(SubSeq(name, 1, Len(name) - 1)) = ((lon + 180) \div 6) + 1
                 /\ name[Len(name)] = BandLetters[((lat + 80) \div 8) + 1]

C4_Witness == pc = "zones_commit" /\ Len(cur.zones) > 0 /\ committed.zones = <<>>

\* the bands of the grid as half-open intervals <<low, high>>, read from the
\* lat and lon values of the query parameters
LatBands == {<<queryvar[k][2], queryvar[k][6]>> : k \in 1..Len(queryvar)}
LonBands == {<<queryvar[k][3], queryvar[k][5]>> : k \in 1..Len(queryvar)}

\* bands partition [low, high): each lies inside it, and every degree of it
\* lies in exactly one band
Partition(bands, low, high) ==
    /\ \A b \in bands : low <= b[1] /\ b[1] < b[2] /\ b[2] <= high
    /\ \A d \in low..(high - 1) :
          Cardinality({b \in bands : b[1] <= d /\ d < b[2]}) = 1

BandWidths ==
    /\ Cardinality(LonBands) = 60
    /\ \A b \in LonBands : b[2] - b[1] = 6
    /\ Cardinality(LatBands) = 20
    /\ \A b \in LatBands : b[2] - b[1] = (IF b[1] = 72 THEN 12 ELSE 8)

\* C5 as stated: the latitude bands partition [-80,80) and the longitude
\* bands [-180,180).
C5_Original ==
    pc = "zones_commit" =>
       /\ Partition(LatBands, -80, 80)
       /\ Partition(LonBands, -180, 180)
       /\ BandWidths

\* C5 amended: the latitude bands partition [-80,84): nineteen bands of 8
\* degrees from -80 to 72 and the band of 12 degrees from 72 to 84.
C5_Bands ==
    pc = "zones_commit" =>
       /\ Partition(LatBands, -80, 84)
       /\ Partition(LonBands, -180, 180)
       /\ BandWidths

C5_Witness == pc = "zones_commit" /\ <<72, 84>> \in LatBands /\ <<174, 180>> \in LonBands

\* the extent of a ring in coordinate c (1 = x, 2 = y)
Span(ring, c) ==
    LET vals == {ring[k][c] : k \in 1..Len(ring)}
    IN  (CHOOSE v \in vals : \A w \in vals : w <= v)
        - (CHOOSE v \in vals : \A w \in vals : v <= w)

\* C6 as stated: every zone polygon is a closed ring in lon/lat order: x is a
\* longitude in [-180,180], y a latitude in [-80,84], and the ring spans 6
\* degrees in x and 8 (12 for band X) in y.
C6_Original ==
    pc = "zones_commit" =>
       \A k \in 1..Len(cur.zones) :
          LET ring == cur.zones[k].polygon.ring
              name == cur.zones[k].name
          IN  /\ ring[1] = ring[Len(ring)]
              /\ \A v \in 1..Len(ring) :
                    /\ ring[v][1] \in -180..180
                    /\ ring[v][2] \in -80..84
              /\ Span(ring, 1) = 6
              /\ Span(ring, 2) = (IF name[Len(name)] = "X" THEN 12 ELSE 8)

(***************************************************************************)
(* Properties of failing runs.                                             *)
(***************************************************************************)
\* C7: started on a database that still holds the zones table of an earlier
\* run, the script's first step ends the run at create_zones_table with the
\* duplicate-table error (or with a failure of the environment), leaving the
\* committed zones and vessels content as it was, with no zone inserted, no
\* archive extracted or ingested and no backfill executed; and a run that has
\* failed takes no further step.
C7_RerunFails ==
    [][/\ pc # "failed"
       /\ (pc = "create_zones_table" /\ "zones" \in committed.tables) =>
             /\ pc' = "failed"
             /\ failedAt' = "create_zones_table"
             /\ error' \in {"DuplicateTable", "EnvironmentError"}
             /\ committed' = committed
             /\ cur' = committed
             /\ disk' = {}
             /\ ingested' = <<>>
             /\ rmtrees' = <<>>
             /\ backfills' = 0]_vars

\* a second run on the content of a complete first run, ended by the
\* duplicate-table error
C7_Witness ==
    /\ pc = "failed"
    /\ failedAt = "create_zones_table"
    /\ error = "DuplicateTable"
    /\ committed = FullDb

\* C8 as stated: both tables and the index exist, committed, before the first
\* zone is inserted; all zones are committed before the first archive is
\* ingested; the backfill runs once, after every ingest has committed.
C8_Original ==
    /\ Len(cur.zones) > 0 =>
          /\ {"zones", "vessels"} \subseteq committed.tables
          /\ "vessels_the_geom_gist" \in committed.indexes
    /\ (disk # {} \/ ingested # <<>>) => Len(committed.zones) = 1200
    /\ backfills <= 1
    /\ backfills = 1 => Elems(ingested) = ExpectedPaths
    /\ pc = "done" => backfills = 1

\* C8 amended: only the zones table is created (and committed) before the
\* first zone is inserted; the vessels table and its index are created after
\* all 1200 zones are committed, and are committed before the first archive
\* is extracted; the backfill runs once, after every ingest has committed.
C8_Order ==
    /\ Len(cur.zones) > 0 => "zones" \in committed.tables
    /\ ("vessels" \in cur.tables \/ cur.indexes # {}) => Len(committed.zones) = 1200
    /\ (disk # {} \/ ingested # <<>> \/ pc = "extract") =>
          /\ Len(committed.zones) = 1200
          /\ {"zones", "vessels"} \subseteq committed.tables
          /\ "vessels_the_geom_gist" \in committed.indexes
    /\ backfills <= 1
    /\ backfills = 1 =>
          /\ Elems(ingested) = ExpectedPaths
          /\ Len(committed.vessels) = Len(cur.vessels)
    /\ pc = "done" => backfills = 1

\* the vessels table created, not yet committed, after the commit of all the
\* zones
C8_Witness ==
    /\ pc = "create_index"
    /\ "vessels" \in cur.tables
    /\ "vessels" \notin committed.tables
    /\ Len(committed.zones) = 1200
    /\ Len(cur.zones) = 1200

\* the rows the archive of (m, z) holds
ArchiveRows(m, z) == CopyRows(ArchiveCsv(m, z))

\* the run started on an empty database
FreshRun ==
    ~ (/\ "zones" \in committed.tables
       /\ \/ pc = "create_zones_table"
          \/ pc = "failed" /\ failedAt = "create_zones_table")

\* C9 as stated: at a failure, zones holds 0 or 1200 rows, the copies
\* committed to vessels are exactly those of the iterations completed before
\* the failure (none of the failing one; no row at all when no iteration
\* completed), and no row has a geometry.
C9_Original ==
    (pc = "failed" /\ FreshRun) =>
       /\ Len(committed.zones) \in {0, 1200}
       /\ ingested = rmtrees
       /\ rmtrees = <<>> => committed.vessels = <<>>
       /\ NoGeometry(committed.vessels)

\* what a failure would leave, at any moment of a run started on an empty
\* database
C9_State ==
    FreshRun =>
       /\ Len(committed.zones) \in {0, 1200}
       /\ pc # "done" => NoGeometry(committed.vessels)
       /\ ingested = <<>> => committed.vessels = <<>>
       /\ \/ ingested = rmtrees
          \/ /\ ingested = Append(rmtrees, CsvPath(month, zone))
             /\ \/ pc \in {"copy_end", "rmtree"}
                \/ pc = "failed" /\ failedAt \in {"copy_end", "rmtree"}

\* how the committed content changes in one step
C9_Step ==
    /\ committed.zones' # committed.zones =>
          committed.zones = <<>> /\ Len(committed.zones') = 1200
    /\ (committed.vessels' # committed.vessels \/ ingested' # ingested) =>
          \/ /\ ingested' = Append(ingested, CsvPath(month, zone))
             /\ committed.vessels' = committed.vessels \o ArchiveRows(month, zone)
          \/ /\ pc' = "done"
             /\ ingested' = ingested
             /\ committed.vessels' =
                   [k \in 1..Len(committed.vessels) |-> BackfillRow(committed.vessels[k])]

\* C9 amended: the committed content never reflects a part of a step: zones
\* holds 0 or 1200 rows; vessels grows only by all the rows of the current
\* archive at the commit of its copy, so that it holds exactly the rows of the
\* iterations whose copy was committed: those of every completed iteration
\* and, when the failure comes after the copy's commit (in the second row
\* count or in the cleanup), those of the failing iteration as well; no row
\* has a geometry unless the backfill committed.
C9_Committed == []C9_State /\ [][C9_Step]_vars

\* a failure inside the copy of a later iteration, the open transaction
\* holding rows that the failure discarded
C9_Witness ==
    /\ pc = "failed"
    /\ failedAt = "copy_commit"
    /\ Len(rmtrees) >= 2
    /\ Len(committed.vessels) > 0
    /\ Len(CopyRows(CurrentFile)) > 0
    /\ Len(committed.zones) = 1200

\* C10: the extracted files belong to at most one archive, that of the
\* current iteration; none is left when the next archive is opened or the run
\* is done; a failure in the extraction or in the ingest leaves the cleanup of
\* that iteration undone and (after the extraction) its file on disk.
C10_Extracted ==
    /\ \A e \in disk : e.path = CsvPath(month, zone)
    /\ Cardinality(disk) <= 1
    /\ pc \in {"for", "extract", "backfill_update", "backfill_commit", "done"} => disk = {}
    /\ pc \in {"copy_begin", "copy_lines", "copy_from", "copy_commit", "copy_end", "rmtree"}
          => Cardinality(disk) = 1
    /\ (/\ pc = "failed"
        /\ failedAt \in {"extract", "copy_begin", "copy_lines", "copy_from",
                         "copy_commit", "copy_end"}) =>
          /\ CsvPath(month, zone) \notin Elems(rmtrees)
          /\ failedAt # "extract" => Cardinality(disk) = 1

\* a failure of the copy in a later iteration, its file left on disk
C10_Witness ==
    /\ pc = "failed"
    /\ failedAt = "copy_from"
    /\ Len(rmtrees) >= 1
    /\ disk = {[path |-> CsvPath(month, zone), content |-> ArchiveCsv(month, zone)]}

====
